---- MODULE Spec2Model ----
(***************************************************************************)
(* The validated fetch-and-decode pipeline of osu-pp-calculator:           *)
(* parseBeatmap / parseScore and their helpers.  Every invocation is an    *)
(* asynchronous sequence that suspends at `await downloadFile(...)` and,   *)
(* for scores, at `await decoder.decodeFromBuffer(...)`.                   *)
(*                                                                         *)
(* JavaScript values are records [t |-> <typeof tag>, v |-> <payload>],    *)
(* the payload always a sequence of naturals: the character codes of a     *)
(* string, the bytes of a Buffer, <<n>> for the number n, <<>> for NaN,    *)
(* undefined and null.                                                     *)
(***************************************************************************)
EXTENDS Integers, Sequences, FiniteSets, TLC

\* Longest downloaded content (in bytes) the downloader delivers.
MaxLen == 1

\* ------------------------------------------------------------------------
\* JavaScript values

Undefined == [t |-> "undefined", v |-> <<>>]
Null      == [t |-> "null", v |-> <<>>]
NaN       == [t |-> "number", v |-> <<>>]
Num(n)    == [t |-> "number", v |-> <<n>>]
Str(s)    == [t |-> "string", v |-> s]
Buffer(b) == [t |-> "buffer", v |-> b]

\* typeof x === 'string'
IsString(x) == x.t = "string"

\* typeof x === 'string' || typeof x === 'number'
IsStringOrNumber(x) == x.t = "string" \/ x.t = "number"

\* A mutation of Truthy: an empty Buffer counted as falsy, like an empty string.
TruthyEmptyBufferFalsy(x) ==
    CASE x.t = "undefined" -> FALSE
      [] x.t = "null"      -> FALSE
      [] x.t = "string"    -> x.v # <<>>
      [] x.t = "number"    -> x.v # <<>> /\ x.v[1] # 0
      [] x.t = "buffer"    -> x.v # <<>>

\* JavaScript truthiness, as used by `!x`, `x ? a : b`, `x && y`, `x ||= y`:
\* undefined, null, "", 0 and NaN are falsy; every object (a Buffer of any
\* length included) is truthy.
Truthy(x) ==
    CASE x.t = "undefined" -> FALSE
      [] x.t = "null"      -> FALSE
      [] x.t = "string"    -> x.v # <<>>
      [] x.t = "number"    -> x.v # <<>> /\ x.v[1] # 0
      [] x.t = "buffer"    -> TRUE

\* Character codes.
Char0 == 48
Char9 == 57
MaxAscii == 127
ReplacementChar == 65533

IsDigit(c) == c >= Char0 /\ c <= Char9

RECURSIVE DigitsOf(_)
\* The decimal digits of a natural number, as character codes.
DigitsOf(n) == IF n < 10 THEN <<Char0 + n>> ELSE DigitsOf(n \div 10) \o <<Char0 + (n % 10)>>

\* String(x) as a template literal `${x}` computes it (x a string or a
\* non-negative integer).
ToStringValue(x) ==
    CASE x.t = "string" -> x
      [] x.t = "number" -> IF x.v = <<>> THEN Str(<<78, 97, 78>>) ELSE Str(DigitsOf(x.v[1]))
      [] OTHER          -> Str(<<>>)

RECURSIVE DigitPrefixValue(_, _)
\* The value of the longest prefix of decimal digits of s, acc the value so far.
DigitPrefixValue(s, acc) ==
    IF s = <<>> \/ ~IsDigit(s[1]) THEN acc
    ELSE DigitPrefixValue(Tail(s), acc * 10 + (s[1] - Char0))

\* parseInt(id as string): the argument is first converted to a string; the
\* longest prefix of decimal digits is the result, NaN when it is empty.
ParseInt(x) ==
    LET s == ToStringValue(x).v
    IN  IF s = <<>> \/ ~IsDigit(s[1]) THEN NaN ELSE Num(DigitPrefixValue(s, 0))

\* Buffer.prototype.toString(): UTF-8 decoding.  ASCII bytes map to
\* themselves.  A byte that is no valid UTF-8 (the model's only non-ASCII byte
\* is 0xFF) decodes to U+FFFD.
BufferToString(b) ==
    Str([i \in 1..Len(b) |-> IF b[i] <= MaxAscii THEN b[i] ELSE ReplacementChar])

RECURSIVE Utf8Encode(_)
\* The UTF-8 bytes of a string (md5 converts a string message this way).
Utf8Encode(s) ==
    IF s = <<>> THEN <<>>
    ELSE (IF s[1] <= MaxAscii THEN <<s[1]>> ELSE <<239, 191, 189>>) \o Utf8Encode(Tail(s))

\* md5 over bytes: the digest as a hex string.  The digest is modelled as an
\* injective, never-empty encoding of the hashed bytes (no collisions): the
\* letter 'h' followed by one hex-like character per byte.
Md5Bytes(b) == Str(<<104>> \o b)

\* md5(message): a string message is hashed over its UTF-8 bytes, a Buffer
\* over its raw bytes.
Md5(message) ==
    IF message.t = "string" THEN Md5Bytes(Utf8Encode(message.v)) ELSE Md5Bytes(message.v)

\* ------------------------------------------------------------------------
\* Results of one invocation

NoData  == [input |-> Undefined, beatmapId |-> Undefined]
NoError == [message |-> "", args |-> <<>>]
NoDec   == [state |-> "none", beatmapId |-> Undefined]

\* new Error(message) with the values interpolated into the message.
Error(message, args) == [message |-> message, args |-> args]

\* Not started or still suspended.
NoOutcome ==
    [status |-> "none", data |-> NoData, hash |-> Undefined, error |-> NoError,
     hashed |-> Undefined, dec |-> NoDec, events |-> <<>>]

\* `throw error`: hashed is the digest computed before the throw (if any),
\* events the collaborator calls made on the way.
Throw(error, hashed, events) ==
    [NoOutcome EXCEPT !.status = "thrown", !.error = error, !.hashed = hashed,
                      !.events = events]

\* `return {data, hash}`; dec is what the decoder produced.
Return(data, hash, dec, events) ==
    [NoOutcome EXCEPT !.status = "returned", !.data = data, !.hash = hash,
                      !.hashed = hash, !.dec = dec, !.events = events]

\* Suspended at `await decoder.decodeFromBuffer(...)`.
Awaiting(hashed, events) ==
    [NoOutcome EXCEPT !.status = "awaiting", !.hashed = hashed, !.events = events]

\* The collaborator calls `events` came before those of `o`.
After(events, o) == [o EXCEPT !.events = events \o @]

\* The error a decoder throws on malformed input, passed on unmodified.
DecodeError == Error("decoder error", <<>>)

\* ------------------------------------------------------------------------
\* parseBeatmapData / parseScoreData

\* A mutation of parseBeatmapData: the digest taken over the raw bytes.
parseBeatmapDataRawHash(data, hash, dec) ==
    LET stringified == BufferToString(data.v)
        targetHash  == Md5(data)
    IN  IF Truthy(hash) /\ hash # targetHash
        THEN Throw(Error("Wrong beatmap file!", <<>>), targetHash, <<"md5">>)
        ELSE IF dec.state = "throws"
        THEN Throw(DecodeError, targetHash, <<"md5", "decodeFromString">>)
        ELSE Return([input |-> stringified, beatmapId |-> dec.beatmapId],
                    targetHash, dec, <<"md5", "decodeFromString">>)

\* A mutation of parseBeatmapData: the beatmap decoded before its hash is
\* compared.
parseBeatmapDataDecodeFirst(data, hash, dec) ==
    LET stringified == BufferToString(data.v)
        targetHash  == Md5(stringified)
    IN  IF dec.state = "throws"
        THEN Throw(DecodeError, Undefined, <<"decodeFromString">>)
        ELSE IF Truthy(hash) /\ hash # targetHash
        THEN Throw(Error("Wrong beatmap file!", <<>>), targetHash,
                   <<"decodeFromString", "md5">>)
        ELSE Return([input |-> stringified, beatmapId |-> dec.beatmapId],
                    targetHash, dec, <<"decodeFromString", "md5">>)

\* parseBeatmapData(data, hash); dec is what decoder.decodeFromString does
\* with the text when it is called.
parseBeatmapData(data, hash, dec) ==
    LET stringified == BufferToString(data.v)
        targetHash  == Md5(stringified)
    IN  IF Truthy(hash) /\ hash # targetHash
        THEN Throw(Error("Wrong beatmap file!", <<>>), targetHash, <<"md5">>)
        ELSE IF dec.state = "throws"
        THEN Throw(DecodeError, targetHash, <<"md5", "decodeFromString">>)
        ELSE Return([input |-> stringified, beatmapId |-> dec.beatmapId],
                    targetHash, dec, <<"md5", "decodeFromString">>)

\* parseScoreData(data, hash); dec is "pending" while the decoder's promise is
\* not settled, and then what decoder.decodeFromBuffer did with the bytes.
parseScoreData(data, hash, dec) ==
    LET targetHash == Md5(data)
    IN  IF Truthy(hash) /\ hash # targetHash
        THEN Throw(Error("Wrong beatmap file!", <<>>), targetHash, <<"md5">>)
        ELSE IF dec.state = "pending"
        THEN Awaiting(targetHash, <<"md5", "decodeFromBuffer">>)
        ELSE IF dec.state = "throws"
        THEN Throw(DecodeError, targetHash, <<"md5", "decodeFromBuffer">>)
        ELSE Return([input |-> data, beatmapId |-> Undefined],
                    targetHash, dec, <<"md5", "decodeFromBuffer">>)

\* ------------------------------------------------------------------------
\* The file system

\* The files a save path can name.
PathNames == {<<112>>, <<113>>}

\* No file exists.
EmptyDisk == [f \in PathNames |-> Null]

\* readFileSync(path): throws a TypeError when path is no string and ENOENT
\* when there is no such file.
ReadFileSync(disk, path) ==
    IF ~IsString(path)
    THEN [ok |-> FALSE, value |-> Null,
          error |-> Error("The \"path\" argument must be of type string", <<>>)]
    ELSE IF path.v \notin PathNames \/ disk[path.v] = Null
    THEN [ok |-> FALSE, value |-> Null,
          error |-> Error("ENOENT: no such file or directory", <<path>>)]
    ELSE [ok |-> TRUE, value |-> disk[path.v], error |-> NoError]

\* ------------------------------------------------------------------------
\* The entry points, up to their call of downloadFile

NoArgs == [path |-> Undefined, save |-> FALSE, id |-> Undefined, url |-> Undefined,
           type |-> "none"]

\* What an entry point does before it suspends: it calls the helper `fn`,
\* which calls downloadFile(args.path, {save, id, url, type}), or it throws.
CallDownload(fn, args) == [fn |-> fn, args |-> args, error |-> NoError]
ThrowAtEntry(error)    == [fn |-> "none", args |-> NoArgs, error |-> error]

\* A mutation of parseBeatmap: the custom URL looked at before the beatmap ID.
parseBeatmapUrlFirst(options) ==
    IF IsString(options.fileURL)
    THEN CallDownload("parseCustomBeatmap",
                      [path |-> options.savePath, save |-> IsString(options.savePath),
                       id |-> Undefined, url |-> options.fileURL, type |-> "default"])
    ELSE IF IsStringOrNumber(options.beatmapId)
    THEN CallDownload("parseBeatmapById",
                      [path |-> options.savePath, save |-> IsString(options.savePath),
                       id |-> options.beatmapId, url |-> Undefined, type |-> "default"])
    ELSE ThrowAtEntry(Error("No beatmap ID or beatmap URL was specified!", <<>>))

\* parseBeatmap(options), with the first statement of the helper it calls.
parseBeatmap(options) ==
    IF IsStringOrNumber(options.beatmapId)
    THEN CallDownload("parseBeatmapById",
                      [path |-> options.savePath, save |-> IsString(options.savePath),
                       id |-> options.beatmapId, url |-> Undefined, type |-> "default"])
    ELSE IF IsString(options.fileURL)
    THEN CallDownload("parseCustomBeatmap",
                      [path |-> options.savePath, save |-> IsString(options.savePath),
                       id |-> Undefined, url |-> options.fileURL, type |-> "default"])
    ELSE ThrowAtEntry(Error("No beatmap ID or beatmap URL was specified!", <<>>))

\* A mutation of parseScore: the download started whatever fileURL is.
parseScoreNoCheck(options) ==
    CallDownload("parseCustomScore",
                 [path |-> Str(<<>>), save |-> FALSE, id |-> Undefined,
                  url |-> options.fileURL, type |-> "Replay"])

\* parseScore(options), with the first statement of parseCustomScore.
parseScore(options) ==
    IF IsString(options.fileURL)
    THEN CallDownload("parseCustomScore",
                      [path |-> Str(<<>>), save |-> FALSE, id |-> Undefined,
                       url |-> options.fileURL, type |-> "Replay"])
    ELSE ThrowAtEntry(Error("No replay URL was specified!", <<>>))

\* ------------------------------------------------------------------------
\* The helpers, from the point where `await downloadFile(...)` resumes

\* parsed.data.metadata.beatmapId ||= parseInt(id as string)
Backfill(parsed, id) ==
    IF parsed.status = "returned"
    THEN [parsed EXCEPT !.data.beatmapId = IF Truthy(@) THEN @ ELSE ParseInt(id)]
    ELSE parsed

\* A mutation of parseBeatmapById: the decoded beatmap ID always overwritten.
parseBeatmapByIdOverwrite(id, hash, savePath, result, disk, dec) ==
    LET rd == ReadFileSync(disk, result.filePath)
        o  == IF ~result.isSuccessful \/ (~Truthy(savePath) /\ ~Truthy(result.buffer))
              THEN Throw(Error("Beatmap with ID \"${id}\" failed to download: \"${result.statusText}\"",
                               <<ToStringValue(id), result.statusText>>), Undefined, <<>>)
              ELSE IF Truthy(savePath)
              THEN IF rd.ok
                   THEN After(<<"readFileSync">>, parseBeatmapData(rd.value, hash, dec))
                   ELSE Throw(rd.error, Undefined, <<"readFileSync">>)
              ELSE parseBeatmapData(result.buffer, hash, dec)
    IN  IF o.status = "returned" THEN [o EXCEPT !.data.beatmapId = ParseInt(id)] ELSE o

\* A mutation of parseBeatmapById: the download error without the status text.
parseBeatmapByIdNoStatus(id, hash, savePath, result, disk, dec) ==
    LET rd == ReadFileSync(disk, result.filePath)
    IN  IF ~result.isSuccessful \/ (~Truthy(savePath) /\ ~Truthy(result.buffer))
        THEN Throw(Error("Beatmap failed to download!", <<>>), Undefined, <<>>)
        ELSE IF Truthy(savePath)
        THEN IF rd.ok
             THEN After(<<"readFileSync">>, Backfill(parseBeatmapData(rd.value, hash, dec), id))
             ELSE Throw(rd.error, Undefined, <<"readFileSync">>)
        ELSE Backfill(parseBeatmapData(result.buffer, hash, dec), id)

\* A mutation of parseBeatmapById: the file read from a fixed cache file
\* instead of the file the downloader reports.
parseBeatmapByIdFixedFile(id, hash, savePath, result, disk, dec) ==
    LET rd == ReadFileSync(disk, Str(<<112>>))
    IN  IF ~result.isSuccessful \/ (~Truthy(savePath) /\ ~Truthy(result.buffer))
        THEN Throw(Error("Beatmap with ID \"${id}\" failed to download: \"${result.statusText}\"",
                         <<ToStringValue(id), result.statusText>>), Undefined, <<>>)
        ELSE IF Truthy(savePath)
        THEN IF rd.ok
             THEN After(<<"readFileSync">>, Backfill(parseBeatmapData(rd.value, hash, dec), id))
             ELSE Throw(rd.error, Undefined, <<"readFileSync">>)
        ELSE Backfill(parseBeatmapData(result.buffer, hash, dec), id)

\* parseBeatmapById(id, hash, savePath) once downloadFile has resolved to
\* `result`; disk is the file system at that moment.
parseBeatmapById(id, hash, savePath, result, disk, dec) ==
    LET rd == ReadFileSync(disk, result.filePath)
    IN  IF ~result.isSuccessful \/ (~Truthy(savePath) /\ ~Truthy(result.buffer))
        THEN Throw(Error("Beatmap with ID \"${id}\" failed to download: \"${result.statusText}\"",
                         <<ToStringValue(id), result.statusText>>), Undefined, <<>>)
        ELSE IF Truthy(savePath)
        THEN IF rd.ok
             THEN After(<<"readFileSync">>, Backfill(parseBeatmapData(rd.value, hash, dec), id))
             ELSE Throw(rd.error, Undefined, <<"readFileSync">>)
        ELSE Backfill(parseBeatmapData(result.buffer, hash, dec), id)

\* parseCustomBeatmap(url, hash, savePath) once downloadFile has resolved.
parseCustomBeatmap(url, hash, savePath, result, disk, dec) ==
    LET rd == ReadFileSync(disk, result.filePath)
    IN  IF ~result.isSuccessful \/ (~Truthy(savePath) /\ ~Truthy(result.buffer))
        THEN Throw(Error("Beatmap from \"${url}\" failed to download: ${result.statusText}",
                         <<url, result.statusText>>), Undefined, <<>>)
        ELSE IF Truthy(savePath)
        THEN IF rd.ok
             THEN After(<<"readFileSync">>, parseBeatmapData(rd.value, hash, dec))
             ELSE Throw(rd.error, Undefined, <<"readFileSync">>)
        ELSE parseBeatmapData(result.buffer, hash, dec)

\* parseCustomScore(url, hash) once downloadFile has resolved.
parseCustomScore(url, hash, result, dec) ==
    IF ~result.isSuccessful \/ ~Truthy(result.buffer)
    THEN Throw(Error("Replay failed to download!", <<>>), Undefined, <<>>)
    ELSE parseScoreData(result.buffer, hash, dec)

\* ------------------------------------------------------------------------
\* Inputs

RECURSIVE SeqsUpTo(_, _)
\* The sequences over S of length at most n.
SeqsUpTo(S, n) ==
    IF n = 0 THEN {<<>>}
    ELSE LET shorter == SeqsUpTo(S, n - 1)
         IN  shorter \cup {Append(q, x) : q \in shorter, x \in S}

\* The bytes of downloaded files: '3' and 0xFF (no valid UTF-8).
Bytes == {51, 255}
Contents == SeqsUpTo(Bytes, MaxLen)

\* options.beatmapId: absent, null, 7, 0, "12", "3x", "x".
BeatmapIds ==
    {Undefined, Null, Num(7), Num(0), Str(<<49, 50>>), Str(<<51, 120>>), Str(<<120>>)}

\* options.fileURL: absent, a number (no string), "u".
FileURLs == {Undefined, Num(5), Str(<<117>>)}

\* options.hash: absent, "", the digests of the contents as text and as bytes.
Hashes ==
    {Undefined, Str(<<>>)} \cup {Md5(Buffer(c)) : c \in Contents}
                           \cup {Md5(BufferToString(c)) : c \in Contents}

\* options.savePath: absent, "", "p", "q".
SavePaths == {Undefined, Str(<<>>)} \cup {Str(f) : f \in PathNames}

NoOptions ==
    [beatmapId |-> Undefined, fileURL |-> Undefined, hash |-> Undefined,
     savePath |-> Undefined]

BeatmapOptions ==
    [beatmapId : BeatmapIds, fileURL : FileURLs, hash : Hashes, savePath : SavePaths]

\* parseScore reads fileURL and hash only; savePath is carried and ignored.
ScoreOptions ==
    [beatmapId : {Undefined}, fileURL : FileURLs, hash : Hashes,
     savePath : {Undefined, Str(<<112>>)}]

\* result.statusText: "OK", "404".
StatusTexts == {Str(<<79, 75>>), Str(<<52, 48, 52>>)}

NoResult ==
    [isSuccessful |-> FALSE, statusText |-> Undefined, buffer |-> Null,
     filePath |-> Null]

\* What downloadFile(args.path, {save, ...}) can resolve to when the bytes it
\* fetched are c: a buffer or none, and, when it was asked to save to a
\* named path, that path as filePath or none.
DownloadResults(args, c) ==
    [isSuccessful : BOOLEAN, statusText : StatusTexts, buffer : {Null, Buffer(c)},
     filePath : {Null} \cup (IF args.save /\ Truthy(args.path) THEN {args.path} ELSE {})]

\* What BeatmapDecoder.decodeFromString can do: throw, or return a beatmap
\* whose metadata.beatmapId is 0 (absent from the file) or 5.
BeatmapDecodes ==
    {[state |-> "throws", beatmapId |-> Undefined],
     [state |-> "ok", beatmapId |-> Num(0)],
     [state |-> "ok", beatmapId |-> Num(5)]}

\* What ScoreDecoder.decodeFromBuffer can settle to.
ScoreDecodes ==
    {[state |-> "throws", beatmapId |-> Undefined],
     [state |-> "ok", beatmapId |-> Undefined]}

Pending == [state |-> "pending", beatmapId |-> Undefined]

\* ------------------------------------------------------------------------
\* State

\* The invocations.
Procs == {1, 2}

VARIABLES
    pc,          \* where each invocation is
    entry,       \* the entry point it was started by
    fn,          \* the helper it is suspended in
    opts,        \* its options
    dlArgs,      \* the arguments of its downloadFile call
    result,      \* what its downloadFile call resolved to
    downloaded,  \* the bytes the downloader fetched for it
    out,         \* what it returned or threw
    log,         \* the collaborator calls it made, in order
    fs           \* the files on disk

vars == <<pc, entry, fn, opts, dlArgs, result, downloaded, out, log, fs>>

Init ==
    /\ pc = [p \in Procs |-> "start"]
    /\ entry = [p \in Procs |-> "none"]
    /\ fn = [p \in Procs |-> "none"]
    /\ opts = [p \in Procs |-> NoOptions]
    /\ dlArgs = [p \in Procs |-> NoArgs]
    /\ result = [p \in Procs |-> NoResult]
    /\ downloaded = [p \in Procs |-> <<>>]
    /\ out = [p \in Procs |-> NoOutcome]
    /\ log = [p \in Procs |-> <<>>]
    /\ fs = EmptyDisk

\* The state an invocation is in once its synchronous run ended with `o`.
PcAfter(o) ==
    CASE o.status = "returned" -> "done"
      [] o.status = "thrown"   -> "failed"
      [] o.status = "awaiting" -> "awaitDecode"

\* An entry point called with `options`: it throws, or runs into the helper
\* up to `await downloadFile(...)`.
Enter(p, name, options, d) ==
    /\ pc[p] = "start"
    /\ entry' = [entry EXCEPT ![p] = name]
    /\ opts' = [opts EXCEPT ![p] = options]
    /\ fn' = [fn EXCEPT ![p] = d.fn]
    /\ dlArgs' = [dlArgs EXCEPT ![p] = d.args]
    /\ IF d.fn = "none"
       THEN /\ out' = [out EXCEPT ![p] = Throw(d.error, Undefined, <<>>)]
            /\ pc' = [pc EXCEPT ![p] = "failed"]
            /\ log' = log
       ELSE /\ out' = out
            /\ pc' = [pc EXCEPT ![p] = "awaitDownload"]
            /\ log' = [log EXCEPT ![p] = Append(@, "downloadFile")]
    /\ UNCHANGED <<result, downloaded, fs>>

CallParseBeatmap(p, options) == Enter(p, "parseBeatmap", options, parseBeatmap(options))

CallParseScore(p, options) == Enter(p, "parseScore", options, parseScore(options))

\* The downloader settles the promise of invocation p: it fetched the bytes
\* c and resolves to r; when it reports a saved file, that file now holds c.
DownloadFile(p, c, r) ==
    /\ pc[p] = "awaitDownload"
    /\ r \in DownloadResults(dlArgs[p], c)
    /\ result' = [result EXCEPT ![p] = r]
    /\ downloaded' = [downloaded EXCEPT ![p] = c]
    /\ fs' = IF r.isSuccessful /\ IsString(r.filePath)
             THEN [fs EXCEPT ![r.filePath.v] = Buffer(c)]
             ELSE fs
    /\ pc' = [pc EXCEPT ![p] = "downloaded"]
    /\ UNCHANGED <<entry, fn, opts, dlArgs, out, log>>

\* The helper of invocation p runs from its resumption to its end or to its
\* next await, with outcome o.
Finish(p, o) ==
    /\ out' = [out EXCEPT ![p] = o]
    /\ log' = [log EXCEPT ![p] = @ \o o.events]
    /\ pc' = [pc EXCEPT ![p] = PcAfter(o)]
    /\ UNCHANGED <<entry, fn, opts, dlArgs, result, downloaded, fs>>

ResumeParseBeatmapById(p, dec) ==
    /\ pc[p] = "downloaded"
    /\ fn[p] = "parseBeatmapById"
    /\ Finish(p, parseBeatmapById(dlArgs[p].id, opts[p].hash, opts[p].savePath,
                                  result[p], fs, dec))

ResumeParseCustomBeatmap(p, dec) ==
    /\ pc[p] = "downloaded"
    /\ fn[p] = "parseCustomBeatmap"
    /\ Finish(p, parseCustomBeatmap(dlArgs[p].url, opts[p].hash, opts[p].savePath,
                                    result[p], fs, dec))

ResumeParseCustomScore(p) ==
    /\ pc[p] = "downloaded"
    /\ fn[p] = "parseCustomScore"
    /\ Finish(p, parseCustomScore(dlArgs[p].url, opts[p].hash, result[p], Pending))

\* The score decoder settles its promise; parseScoreData returns or rethrows.
DecodeFromBufferSettles(p, dec) ==
    /\ pc[p] = "awaitDecode"
    /\ LET o == parseCustomScore(dlArgs[p].url, opts[p].hash, result[p], dec)
       IN  /\ out' = [out EXCEPT ![p] = o]
           /\ pc' = [pc EXCEPT ![p] = PcAfter(o)]
    /\ UNCHANGED <<entry, fn, opts, dlArgs, result, downloaded, log, fs>>

\* One invocation, every input.
Next ==
    \/ \E o \in BeatmapOptions : CallParseBeatmap(1, o)
    \/ \E o \in ScoreOptions : CallParseScore(1, o)
    \/ \E c \in Contents : \E r \in DownloadResults(dlArgs[1], c) : DownloadFile(1, c, r)
    \/ \E d \in BeatmapDecodes : ResumeParseBeatmapById(1, d)
    \/ \E d \in BeatmapDecodes : ResumeParseCustomBeatmap(1, d)
    \/ ResumeParseCustomScore(1)
    \/ \E d \in ScoreDecodes : DecodeFromBufferSettles(1, d)

Spec == Init /\ [][Next]_vars

\* ------------------------------------------------------------------------
\* Two concurrent invocations, on the inputs that decide whether they can
\* observe each other: the acquisition mode, the save path, the bytes.

ConcBeatmapOptions ==
    [beatmapId : {Undefined, Num(7)}, fileURL : {Str(<<117>>)},
     hash : {Undefined, Md5(Str(<<51>>))},
     savePath : {Undefined} \cup {Str(f) : f \in PathNames}]

ConcScoreOptions ==
    [beatmapId : {Undefined}, fileURL : {Str(<<117>>)}, hash : {Undefined},
     savePath : {Str(<<112>>)}]

ConcContents == {<<51>>, <<255>>}

ConcDownloadResults(args, c) ==
    {r \in DownloadResults(args, c) : r.statusText = Str(<<79, 75>>)}

ConcBeatmapDecodes == {d \in BeatmapDecodes : d.beatmapId # Num(5)}

NextConc ==
    \E p \in Procs :
        \/ \E o \in ConcBeatmapOptions : CallParseBeatmap(p, o)
        \/ \E o \in ConcScoreOptions : CallParseScore(p, o)
        \/ \E c \in ConcContents : \E r \in ConcDownloadResults(dlArgs[p], c) :
               DownloadFile(p, c, r)
        \/ \E d \in ConcBeatmapDecodes : ResumeParseBeatmapById(p, d)
        \/ \E d \in ConcBeatmapDecodes : ResumeParseCustomBeatmap(p, d)
        \/ ResumeParseCustomScore(p)
        \/ \E d \in ScoreDecodes : DecodeFromBufferSettles(p, d)

SpecConc == Init /\ [][NextConc]_vars

\* ------------------------------------------------------------------------
\* Vocabulary of the properties

Range(q) == {q[i] : i \in DOMAIN q}

Count(q, e) == Cardinality({i \in DOMAIN q : q[i] = e})

\* The index of the first e in q, 0 when there is none.
FirstIndex(q, e) ==
    IF e \in Range(q) THEN CHOOSE i \in DOMAIN q : q[i] = e /\ \A j \in 1..(i - 1) : q[j] # e
    ELSE 0

Started(p) == pc[p] # "start"
Resumed(p) == pc[p] \in {"awaitDecode", "done", "failed"} /\ fn[p] # "none"
Ended(p)   == pc[p] \in {"done", "failed"}

DecodeEvents == {"decodeFromString", "decodeFromBuffer"}
DecoderCalled(p) == Range(log[p]) \cap DecodeEvents # {}

\* Only the downloader was called: no file read, no hash, no decode.
OnlyDownloaded(p) == log[p] = <<"downloadFile">>

\* The error kinds of the specification, by the message thrown.
ErrorKind(e) ==
    CASE e.message \in {"No beatmap ID or beatmap URL was specified!",
                        "No replay URL was specified!"} -> "MissingSource"
      [] e.message \in {"Beatmap with ID \"${id}\" failed to download: \"${result.statusText}\"",
                        "Beatmap from \"${url}\" failed to download: ${result.statusText}",
                        "Replay failed to download!"} -> "DownloadFailed"
      [] e.message = "Wrong beatmap file!" -> "HashMismatch"
      [] e.message = "decoder error" -> "DecodeFailed"
      [] OTHER -> "Other"

FailedWith(p, kind) == pc[p] = "failed" /\ ErrorKind(out[p].error) = kind

\* The request of invocation p names no source its entry point accepts.
NoSource(p) ==
    IF entry[p] = "parseBeatmap"
    THEN ~IsStringOrNumber(opts[p].beatmapId) /\ ~IsString(opts[p].fileURL)
    ELSE ~IsString(opts[p].fileURL)

\* The ID or URL the download of invocation p was asked for.
SourceDescriptor(p) ==
    IF fn[p] = "parseBeatmapById" THEN ToStringValue(dlArgs[p].id) ELSE dlArgs[p].url

C2_EveryDifferingHashRejected ==
    \A p \in Procs :
        (Resumed(p) /\ out[p].hashed # Undefined /\ IsString(opts[p].hash)
                    /\ opts[p].hash # out[p].hashed)
            => FailedWith(p, "HashMismatch") /\ ~DecoderCalled(p)

\* The bytes invocation p acquired: the file read back when a save path is
\* set, the buffer otherwise (for a score always the buffer).
AcquiredBytes(p) ==
    IF fn[p] # "parseCustomScore" /\ Truthy(opts[p].savePath)
    THEN fs[result[p].filePath.v]
    ELSE result[p].buffer

\* What the decoder of invocation p is to be handed: the text form of the
\* bytes for a beatmap, the bytes themselves for a score.
ExpectedDecoderInput(p) ==
    IF fn[p] = "parseCustomScore" THEN AcquiredBytes(p)
    ELSE BufferToString(AcquiredBytes(p).v)

C4_ConflictRejected ==
    \A p \in Procs :
        (Started(p) /\ entry[p] = "parseBeatmap"
                    /\ IsStringOrNumber(opts[p].beatmapId) /\ IsString(opts[p].fileURL))
            => pc[p] = "failed" /\ log[p] = <<>>

\* C4 (amended): a parseBeatmap request with both a beatmap ID and a fileURL
\* is not rejected: the beatmap ID takes precedence, the downloader is called
\* once for the ID and the fileURL is ignored.  The downloader is called
\* exactly for the requests with at least one acquisition mode set.
C4_IdTakesPrecedence ==
    \A p \in Procs :
        (Started(p) /\ entry[p] = "parseBeatmap")
            => /\ (IsStringOrNumber(opts[p].beatmapId) /\ IsString(opts[p].fileURL))
                      => /\ fn[p] = "parseBeatmapById"
                         /\ dlArgs[p].id = opts[p].beatmapId
                         /\ dlArgs[p].url = Undefined
                         /\ Count(log[p], "downloadFile") = 1
                         /\ ~FailedWith(p, "MissingSource")
               /\ ("downloadFile" \in Range(log[p]))
                      <=> (IsStringOrNumber(opts[p].beatmapId) \/ IsString(opts[p].fileURL))

C4_Witness ==
    \E p \in Procs :
        /\ pc[p] = "done"
        /\ IsStringOrNumber(opts[p].beatmapId) /\ IsString(opts[p].fileURL)
        /\ fn[p] = "parseBeatmapById"

\* C5 (as claimed): in every pipeline, when the downloader reports
\* isSuccessful = false the call fails with DownloadFailed carrying the
\* downloader's statusText and the source descriptor, with no hash or decode.
C5_FailureCarriesStatusAndSource ==
    \A p \in Procs :
        (Resumed(p) /\ ~result[p].isSuccessful)
            => /\ FailedWith(p, "DownloadFailed")
               /\ result[p].statusText \in Range(out[p].error.args)
               /\ SourceDescriptor(p) \in Range(out[p].error.args)
               /\ OnlyDownloaded(p)

\* C5 (amended): when the downloader reports isSuccessful = false the call
\* fails with DownloadFailed and neither reads, hashes nor decodes; the error
\* of the two beatmap pipelines carries the ID or URL and the statusText, the
\* error of the score pipeline is the fixed message "Replay failed to
\* download!" and carries neither.
C5_FailureByPipeline ==
    \A p \in Procs :
        (Resumed(p) /\ ~result[p].isSuccessful)
            => /\ FailedWith(p, "DownloadFailed")
               /\ OnlyDownloaded(p)
               /\ out[p].hashed = Undefined
               /\ fn[p] \in {"parseBeatmapById", "parseCustomBeatmap"}
                      => out[p].error.args = <<SourceDescriptor(p), result[p].statusText>>
               /\ fn[p] = "parseCustomScore"
                      => /\ out[p].error.message = "Replay failed to download!"
                         /\ out[p].error.args = <<>>

C5_Witness ==
    \E p \in Procs :
        /\ fn[p] = "parseBeatmapById"
        /\ Resumed(p) /\ ~result[p].isSuccessful
        /\ out[p].error.args = <<Str(<<55>>), Str(<<52, 48, 52>>)>>

\* C6 (as claimed): in the beatmap pipeline, whatever savePath is, a download
\* reported successful with neither filePath nor buffer fails with
\* DownloadFailed, and no file read, hash or decode is attempted.
C6_NoPayloadIsDownloadFailed ==
    \A p \in Procs :
        (Resumed(p) /\ entry[p] = "parseBeatmap" /\ result[p].isSuccessful
                    /\ result[p].buffer = Null /\ result[p].filePath = Null)
            => FailedWith(p, "DownloadFailed") /\ OnlyDownloaded(p)

\* C7 (as claimed): with save = false, a download reported successful with a
\* zero-length buffer fails with DownloadFailed; it is never hashed or decoded.
C7_EmptyBufferIsFailure ==
    \A p \in Procs :
        (Resumed(p) /\ ~dlArgs[p].save /\ result[p].isSuccessful
                    /\ result[p].buffer = Buffer(<<>>))
            => FailedWith(p, "DownloadFailed") /\ OnlyDownloaded(p)

\* C7 (amended): with save = false and a download reported successful, the
\* call fails with DownloadFailed (nothing hashed or decoded) exactly when
\* the buffer is absent; a zero-length buffer is valid content: it is hashed
\* and, unless a supplied hash differs, handed to the decoder as empty input.
C7_AbsentBufferIsFailure ==
    \A p \in Procs :
        (Resumed(p) /\ ~dlArgs[p].save /\ result[p].isSuccessful)
            => /\ result[p].buffer = Null
                      => FailedWith(p, "DownloadFailed") /\ OnlyDownloaded(p)
               /\ result[p].buffer = Buffer(<<>>)
                      => /\ ~FailedWith(p, "DownloadFailed")
                         /\ out[p].hashed = Md5Bytes(<<>>)
                         /\ ~(Truthy(opts[p].hash) /\ opts[p].hash # out[p].hashed)
                                => DecoderCalled(p)
                         /\ pc[p] = "done" => out[p].data.input.v = <<>>

C7_Witness ==
    \E p \in Procs :
        /\ pc[p] = "done"
        /\ ~dlArgs[p].save
        /\ result[p].buffer = Buffer(<<>>)
        /\ out[p].hash = Md5Bytes(<<>>)

\* The number a beatmap ID of the model stands for: 7, 0, "12" -> 12,
\* "3x" -> 3 (the digits it starts with), "x" -> NaN.
NumericForm(id) ==
    CASE id = Num(7)             -> Num(7)
      [] id = Num(0)             -> Num(0)
      [] id = Str(<<49, 50>>)    -> Num(12)
      [] id = Str(<<51, 120>>)   -> Num(3)
      [] id = Str(<<120>>)       -> NaN

\* C8: for a successful parseBeatmap call by ID, the returned beatmapId is the
\* numeric form of the ID when the decoded one is falsy and the decoded one
\* otherwise; for a call by URL it is always the decoded one, even when
\* empty.  The returned hash is the hash that was computed over the content.
C8_BeatmapIdBackfill ==
    \A p \in Procs :
        (pc[p] = "done" /\ entry[p] = "parseBeatmap")
            => /\ fn[p] = "parseBeatmapById" =>
                      /\ ~Truthy(out[p].dec.beatmapId)
                             => out[p].data.beatmapId = NumericForm(opts[p].beatmapId)
                      /\ Truthy(out[p].dec.beatmapId)
                             => out[p].data.beatmapId = out[p].dec.beatmapId
               /\ fn[p] = "parseCustomBeatmap"
                      => out[p].data.beatmapId = out[p].dec.beatmapId
               /\ out[p].hash = Md5(ExpectedDecoderInput(p))

C8_Witness ==
    \E p \in Procs :
        /\ pc[p] = "done"
        /\ fn[p] = "parseBeatmapById"
        /\ opts[p].beatmapId = Str(<<49, 50>>)
        /\ out[p].dec.beatmapId = Num(0)
        /\ out[p].data.beatmapId = Num(12)

\* The order of the pipeline's states.
Rank(state) ==
    CASE state = "start"         -> 0
      [] state = "awaitDownload" -> 1
      [] state = "downloaded"    -> 2
      [] state = "awaitDecode"   -> 3
      [] state \in {"done", "failed"} -> 4

\* In every state: at most one downloader call and one decoder call; the
\* decoder is called only after the download resolved, the content was hashed
\* and the hash check passed; a failed call carries no data and no hash.
PipelineOrder(p) ==
    /\ Count(log[p], "downloadFile") <= 1
    /\ Count(log[p], "decodeFromString") + Count(log[p], "decodeFromBuffer") <= 1
    /\ Count(log[p], "md5") <= 1
    /\ DecoderCalled(p)
           => /\ Resumed(p)
              /\ result[p].isSuccessful
              /\ FirstIndex(log[p], "downloadFile") = 1
              /\ FirstIndex(log[p], "md5") > 1
              /\ \A e \in DecodeEvents :
                     e \in Range(log[p]) => FirstIndex(log[p], e) > FirstIndex(log[p], "md5")
              /\ out[p].hashed # Undefined
              /\ ~(Truthy(opts[p].hash) /\ opts[p].hash # out[p].hashed)
    /\ pc[p] = "failed" => out[p].data = NoData /\ out[p].hash = Undefined
    /\ pc[p] = "done" => DecoderCalled(p) /\ out[p].status = "returned"

\* In every step: no invocation moves backward, and one that has returned or
\* thrown calls nothing more and keeps its result.
PipelineStep(p) ==
    /\ Rank(pc'[p]) >= Rank(pc[p])
    /\ Ended(p) => pc'[p] = pc[p] /\ log'[p] = log[p] /\ out'[p] = out[p]

\* C9: every invocation runs Start -> Acquiring -> HashChecking -> Decoding ->
\* Done, or fails on the way, with no backward step and no retry: downloader
\* and decoder are called at most once, the decoder only after the download
\* returned and the hash check passed, and a finished invocation makes no
\* further call and yields no partial result.
C9_ForwardOnlyPipeline ==
    /\ [](\A p \in Procs : PipelineOrder(p))
    /\ [][\A p \in Procs : PipelineStep(p)]_vars

C9_Witness ==
    \E p \in Procs :
        /\ pc[p] = "done"
        /\ log[p] = <<"downloadFile", "readFileSync", "md5", "decodeFromString">>
        /\ Truthy(opts[p].hash)

\* The save file the download of invocation p targets, if any.
SaveTargets(p) ==
    IF dlArgs[p].save /\ Truthy(dlArgs[p].path) THEN {dlArgs[p].path} ELSE {}

\* The disk as invocation p alone would find it when it resumes.
AloneDisk(p) ==
    IF result[p].isSuccessful /\ IsString(result[p].filePath)
    THEN [EmptyDisk EXCEPT ![result[p].filePath.v] = Buffer(downloaded[p])]
    ELSE EmptyDisk

\* What invocation p does when it runs alone on its request, options and
\* download, for each thing its decoder can do.
AloneOutcomes(p) ==
    CASE fn[p] = "none" ->
             {Throw((IF entry[p] = "parseBeatmap" THEN parseBeatmap(opts[p])
                     ELSE parseScore(opts[p])).error, Undefined, <<>>)}
      [] fn[p] = "parseBeatmapById" ->
             {parseBeatmapById(dlArgs[p].id, opts[p].hash, opts[p].savePath,
                               result[p], AloneDisk(p), d) : d \in BeatmapDecodes}
      [] fn[p] = "parseCustomBeatmap" ->
             {parseCustomBeatmap(dlArgs[p].url, opts[p].hash, opts[p].savePath,
                                 result[p], AloneDisk(p), d) : d \in BeatmapDecodes}
      [] fn[p] = "parseCustomScore" ->
             {parseCustomScore(dlArgs[p].url, opts[p].hash, result[p], d) :
                  d \in ScoreDecodes}

\* C10: in every interleaving of the invocations, one that shares its save
\* file with no other ends as it would have ended alone on its own request,
\* options and downloaded bytes.
C10_IsolatedUnlessSamePath ==
    \A p \in Procs :
        (Ended(p) /\ \A q \in Procs \ {p} : SaveTargets(p) \cap SaveTargets(q) = {})
            => out[p] \in AloneOutcomes(p)

C10_Witness ==
    \E p, q \in Procs :
        /\ p # q
        /\ pc[p] = "done" /\ pc[q] = "done"
        /\ SaveTargets(p) # {} /\ SaveTargets(q) # {}
        /\ SaveTargets(p) # SaveTargets(q)
        /\ fn[p] = "parseBeatmapById" /\ fn[q] = "parseCustomBeatmap"
        /\ log[p] = <<"downloadFile", "readFileSync", "md5", "decodeFromString">>
        /\ log[q] = log[p]
        /\ out[p].hash # out[q].hash

\* Invocations that share a save file can see each other's bytes.
SharedPathObserved ==
    \E p \in Procs : Ended(p) /\ out[p] \notin AloneOutcomes(p)

====
